---- MODULE Spec2Model ----
(***************************************************************************)
(* A model of pytest_perf/plugin.py: discovery of perf functions, the      *)
(* construction of experiment specifications from their source text, the   *)
(* memoised runner factory and the Experiment life cycle.                  *)
(*                                                                         *)
(* Text is a sequence of one-character strings, so that partition,         *)
(* rpartition, splitlines, strip, dedent and the regular expression are    *)
(* computed character by character, as the library functions compute them. *)
(* Python values are tagged records: None, Str(chars), List(items),        *)
(* Tuple(items).                                                           *)
(***************************************************************************)
EXTENDS Integers, Sequences, FiniteSets, TLC

VARIABLES
    importable,   \* the import system: dotted module name -> module on disk
    func,         \* the function object handed to spec_from_func
    built,        \* what spec_from_func returned or raised for func
    yielded,      \* what funcs_from_name produced for the probed file name
    session,      \* the pytest session of this process: its number and phase
    config,       \* the session's options: perf_target, perf_baseline
    heap,         \* every Experiment object constructed in this process
    _instances,   \* Experiment._instances: references into heap
    collectors,   \* per file of the session, in directory order: its File and collection
    cache,        \* the lru_cache of runner_factory, least recently used first
    serial,       \* number of BenchmarkRunner objects constructed so far
    handed,       \* the [key, inst] pairs runner_factory returned since the last clear
    retired,      \* the [key, inst] pairs it returned before the last clear
    fresh,        \* number of distinct argument sets requested so far
    written       \* the lines of the session's terminal summary

vars == <<importable, func, built, yielded, session, config, heap, _instances,
          collectors, cache, serial, handed, retired, fresh, written>>

----------------------------------------------------------------------------
(* Python values *)

None == [type |-> "NoneType"]
Str(chars) == [type |-> "str", value |-> chars]
List(items) == [type |-> "list", value |-> items]
Tuple(items) == [type |-> "tuple", value |-> items]

\* bool(v) for the values above
Truthy(v) ==
    CASE v.type = "NoneType" -> FALSE
      [] OTHER -> Len(v.value) > 0

----------------------------------------------------------------------------
(* Exceptions *)

\* An exception class is the sequence of the names of its method resolution
\* order, from the class itself to BaseException.
BaseException == <<"BaseException">>
Exception == <<"Exception">> \o BaseException
Derived(name, base) == <<name>> \o base

\* issubclass(cls, base), base given by its name
issubclass(cls, base) == \E i \in DOMAIN cls : cls[i] = base

AttributeError == Derived("AttributeError", Exception)
TypeError == Derived("TypeError", Exception)
OSError == Derived("OSError", Exception)
ValueError == Derived("ValueError", Exception)
UnicodeDecodeError == Derived("UnicodeDecodeError", Derived("UnicodeError", ValueError))
ImportError == Derived("ImportError", Exception)
ModuleNotFoundError == Derived("ModuleNotFoundError", ImportError)
SyntaxError == Derived("SyntaxError", Exception)
ZeroDivisionError == Derived("ZeroDivisionError", Derived("ArithmeticError", Exception))
SystemExit == Derived("SystemExit", BaseException)
KeyboardInterrupt == Derived("KeyboardInterrupt", BaseException)
\* classes that are not built in: subprocess.CalledProcessError, a class
\* MyError(Exception) of the module that raises it, and pytest's Skipped, which
\* pytest.skip raises and which derives from BaseException
CalledProcessError == Derived("CalledProcessError", Derived("SubprocessError", Exception))
MyError == Derived("MyError", Exception)
Skipped == Derived("Skipped", Derived("OutcomeException", BaseException))

\* how a call ends: with a value, or with an exception of a class; Ok stands in
\* the place of the class when nothing was raised
Ok == <<>>
Returned(v) == [raised |-> Ok, value |-> v]
Raised(cls) == [raised |-> cls]

\* a handler for ImportError and its subclasses only
catches_only_import_errors(outcome) ==
    IF outcome.raised # Ok /\ issubclass(outcome.raised, "ImportError")
    THEN Returned(None) ELSE outcome

\* @suppress(Exception): an exception that is an instance of Exception ends the
\* call with None; any other passes through
suppress_Exception(outcome) ==
    IF outcome.raised # Ok /\ issubclass(outcome.raised, "Exception")
    THEN Returned(None) ELSE outcome

----------------------------------------------------------------------------
(* str methods, on sequences of characters *)

\* The characters str.strip() removes, those for which str.isspace() holds, as far
\* as strings of a module can hold them: tab to carriage return, U+001C to U+001F,
\* the space, U+0085, U+00A0 and U+1680 (the spaces from U+2000 on are not among
\* the characters the model writes texts in).
Whitespace ==
    {"\t", "\n", "", "\f", "\r", "", "", "", "", " ", "", " ", " "}

\* The characters str.splitlines() ends a line at, with the same limit: line feed,
\* carriage return, vertical tab, form feed, U+001C to U+001E and U+0085; a
\* carriage return and the line feed behind it end one line together.
LineEnds ==
    {"\n", "\r", "", "\f", "", "", "", ""}

StartsAt(s, sub, i) ==
    /\ i >= 1
    /\ i + Len(sub) - 1 <= Len(s)
    /\ \A k \in 1..Len(sub) : s[i + k - 1] = sub[k]

Occurrences(s, sub) == {i \in 1..Len(s) : StartsAt(s, sub, i)}

Min(S) == CHOOSE x \in S : \A y \in S : x <= y
Max(S) == CHOOSE x \in S : \A y \in S : x >= y

\* str.partition(sep): split at the first occurrence of sep
partition(s, sep) ==
    IF Occurrences(s, sep) = {}
    THEN <<s, <<>>, <<>>>>
    ELSE LET i == Min(Occurrences(s, sep))
         IN <<SubSeq(s, 1, i - 1), sep, SubSeq(s, i + Len(sep), Len(s))>>

\* a split at the first occurrence of sep, as partition makes it
rpartition_first(s, sep) ==
    IF Occurrences(s, sep) = {}
    THEN <<<<>>, <<>>, s>>
    ELSE LET i == Min(Occurrences(s, sep))
         IN <<SubSeq(s, 1, i - 1), sep, SubSeq(s, i + Len(sep), Len(s))>>

\* str.rpartition(sep): split at the last occurrence of sep
rpartition(s, sep) ==
    IF Occurrences(s, sep) = {}
    THEN <<<<>>, <<>>, s>>
    ELSE LET i == Max(Occurrences(s, sep))
         IN <<SubSeq(s, 1, i - 1), sep, SubSeq(s, i + Len(sep), Len(s))>>

\* str.split(c) for a one-character separator
RECURSIVE split(_, _)
split(s, c) ==
    IF \A i \in 1..Len(s) : s[i] # c
    THEN <<s>>
    ELSE LET i == Min({k \in 1..Len(s) : s[k] = c})
         IN <<SubSeq(s, 1, i - 1)>> \o split(SubSeq(s, i + 1, Len(s)), c)

\* c.join(pieces)
RECURSIVE join(_, _)
join(pieces, c) ==
    IF Len(pieces) = 0 THEN <<>>
    ELSE IF Len(pieces) = 1 THEN pieces[1]
    ELSE pieces[1] \o <<c>> \o join(Tail(pieces), c)

\* str.splitlines(): the lines without their line ends; a final line end opens
\* no further line
RECURSIVE splitlines(_)
splitlines(s) ==
    IF Len(s) = 0 THEN <<>>
    ELSE LET ends == {k \in 1..Len(s) : s[k] \in LineEnds}
         IN IF ends = {} THEN <<s>>
            ELSE LET i == Min(ends)
                     n == IF s[i] = "\r" /\ i < Len(s) /\ s[i + 1] = "\n" THEN 2 ELSE 1
                 IN <<SubSeq(s, 1, i - 1)>> \o splitlines(SubSeq(s, i + n, Len(s)))

\* str.strip(): without leading and trailing whitespace
strip(s) ==
    LET solid == {i \in 1..Len(s) : s[i] \notin Whitespace}
    IN IF solid = {} THEN <<>> ELSE SubSeq(s, Min(solid), Max(solid))

\* str.replace(old, new) for one-character old and new
replace(s, old, new) == [i \in 1..Len(s) |-> IF s[i] = old THEN new ELSE s[i]]

----------------------------------------------------------------------------
(* textwrap.dedent *)

IsBlankLine(line) == \A i \in 1..Len(line) : line[i] \in {" ", "\t"}

\* the leading run of spaces and tabs of a line
Indent(line) ==
    LET solid == {i \in 1..Len(line) : line[i] \notin {" ", "\t"}}
    IN IF solid = {} THEN line ELSE SubSeq(line, 1, Min(solid) - 1)

\* the longest common prefix of a non-empty set of sequences
CommonPrefix(S) ==
    LET some == CHOOSE x \in S : TRUE
        ok == {n \in 0..Len(some) :
                 \A y \in S : Len(y) >= n /\ SubSeq(y, 1, n) = SubSeq(some, 1, n)}
    IN SubSeq(some, 1, Max(ok))

\* the text with its indentation left in place
dedent_nothing(text) == text

\* textwrap.dedent(text): lines of blanks emptied, then the longest common
\* leading run of blanks of the other lines removed from every line
dedent(text) ==
    LET raw == split(text, "\n")
        \* lines of spaces and tabs only are emptied
        lines == [i \in 1..Len(raw) |-> IF IsBlankLine(raw[i]) THEN <<>> ELSE raw[i]]
        indents == {Indent(lines[i]) : i \in {k \in 1..Len(lines) : lines[k] # <<>>}}
        margin == IF indents = {} THEN <<>> ELSE CommonPrefix(indents)
        cut == [i \in 1..Len(lines) |->
                  IF StartsAt(lines[i], margin, 1)
                  THEN SubSeq(lines[i], Len(margin) + 1, Len(lines[i]))
                  ELSE lines[i]]
    IN join(cut, "\n")

----------------------------------------------------------------------------
(* re.search(r'(\b|_)perf(\b|_)', name) *)

AsciiWordChars ==
    {"a", "b", "c", "d", "e", "f", "g", "h", "i", "j", "k", "l", "m", "n", "o", "p",
     "q", "r", "s", "t", "u", "v", "w", "x", "y", "z", "A", "B", "C", "D", "E", "F",
     "G", "H", "I", "J", "K", "L", "M", "N", "O", "P", "Q", "R", "S", "T", "U", "V",
     "W", "X", "Y", "Z", "0", "1", "2", "3", "4", "5", "6", "7", "8", "9", "_"}

\* \w of a str pattern is Unicode: the letters and digits of Latin-1 beyond ASCII
Latin1WordChars ==
    {"ª", "²", "³", "µ", "¹", "º", "¼", "½", "¾", "À", "Á", "Â", "Ã", "Ä", "Å", "Æ",
     "Ç", "È", "É", "Ê", "Ë", "Ì", "Í", "Î", "Ï", "Ð", "Ñ", "Ò", "Ó", "Ô", "Õ", "Ö",
     "Ø", "Ù", "Ú", "Û", "Ü", "Ý", "Þ", "ß", "à", "á", "â", "ã", "ä", "å", "æ", "ç",
     "è", "é", "ê", "ë", "ì", "í", "î", "ï", "ð", "ñ", "ò", "ó", "ô", "õ", "ö", "ø",
     "ù", "ú", "û", "ü", "ý", "þ", "ÿ"}

\* \w, for the characters up to U+00FF
WordChars == AsciiWordChars \cup Latin1WordChars

IsWordAt(s, i) == i >= 1 /\ i <= Len(s) /\ s[i] \in WordChars

\* \b between s[i] and s[i+1]; outside the string counts as a non-word character
WordBoundary(s, i) == IsWordAt(s, i) # IsWordAt(s, i + 1)

PERF == <<"p","e","r","f">>

\* (\b|_) in front of a 'perf' that starts at j: an empty match at a word boundary,
\* or the underscore s[j-1]
LeftDelimited(s, j) == WordBoundary(s, j - 1) \/ (j > 1 /\ s[j - 1] = "_")

\* (\b|_) behind a 'perf' that ends at j+3
RightDelimited(s, j) == WordBoundary(s, j + 3) \/ (j + 4 <= Len(s) /\ s[j + 4] = "_")

\* the pattern without its closing group: (\b|_)perf
re_search_no_right_delimiter(name) ==
    \E j \in Occurrences(name, PERF) : LeftDelimited(name, j)

\* re.search(r'(\b|_)perf(\b|_)', name) is not None
re_search(name) ==
    \E j \in Occurrences(name, PERF) : LeftDelimited(name, j) /\ RightDelimited(name, j)

----------------------------------------------------------------------------
(* first_line, freeze, spec_from_func *)

\* @pass_none: None for None; otherwise the first of the stripped lines, or None
\* when there is no line
first_line(text) ==
    IF text = None THEN None
    ELSE LET lines == splitlines(text.value)
         IN IF Len(lines) = 0 THEN None ELSE Str(strip(lines[1]))

\* freeze = pass_none(tuple)
freeze(v) == IF v = None THEN None ELSE Tuple(v.value)

\* A function object is the mapping of its attributes: "__name__" and "__doc__"
\* always, "extras", "deps" and "control" when set, and "source", the text
\* inspect.getsource finds for it, or how inspect.getsource fails: Raised(OSError)
\* for a function whose source is not to be found, Raised(TypeError) for an
\* object that is no function, method, class or module. An object that is not a
\* function may lack "__name__".
hasattr(obj, a) == a \in DOMAIN obj

MARKER == <<"#"," ","e","n","d"," ","w","a","r","m","u","p">>
COLON_NEWLINE == <<":","\n">>

OptionalKeys == {"extras", "deps", "control"}

\* @apply(dict): the dict of the pairs yielded, or the exception that ends the
\* generator, which nothing here catches: AttributeError of _func.__name__ when
\* the documentation gives no name, or the exception of inspect.getsource
spec_from_func(_func) ==
    IF ~Truthy(first_line(_func["__doc__"])) /\ ~hasattr(_func, "__name__")
    THEN Raised(AttributeError)
    ELSE IF hasattr(_func["source"], "raised")
    THEN Raised(_func["source"].raised)
    ELSE
    LET _body_ind == partition(_func["source"].value, COLON_NEWLINE)[3]
        _body == dedent(_body_ind)
        parts == rpartition(_body, MARKER)
        warmup == parts[1]
        exercise == parts[3]
        keys == {"name", "exercise"}
                  \cup {k \in OptionalKeys : hasattr(_func, k)}
                  \cup (IF warmup # <<>> THEN {"warmup"} ELSE {})
    IN [raised |-> Ok,
        value |-> [k \in keys |->
            CASE k = "name" -> IF Truthy(first_line(_func["__doc__"]))
                               THEN first_line(_func["__doc__"])
                               ELSE Str(_func["__name__"])
              [] k = "extras" -> freeze(_func["extras"])
              [] k = "deps" -> freeze(_func["deps"])
              [] k = "control" -> _func["control"]
              [] k = "warmup" -> Str(warmup)
              [] k = "exercise" -> Str(exercise)]]

----------------------------------------------------------------------------
(* Modules, dir() and getattr() *)

\* code point order of the characters names are written in
CodePoints ==
    <<" ", "(", ")", "-", ".", "/", "0", "1", "2", "3", "4", "5", "6", "7", "8", "9", ":",
      "A","B","C","D","E","F","G","H","I","J","K","L","M","N","O","P","Q","R","S",
      "T","U","V","W","X","Y","Z", "_",
      "a","b","c","d","e","f","g","h","i","j","k","l","m","n","o","p","q","r","s",
      "t","u","v","w","x","y","z",
      "ª", "²", "³", "µ", "¹", "º", "¼", "½", "¾", "À", "Á", "Â", "Ã", "Ä", "Å", "Æ",
      "Ç", "È", "É", "Ê", "Ë", "Ì", "Í", "Î", "Ï", "Ð", "Ñ", "Ò", "Ó", "Ô", "Õ", "Ö",
      "Ø", "Ù", "Ú", "Û", "Ü", "Ý", "Þ", "ß", "à", "á", "â", "ã", "ä", "å", "æ", "ç",
      "è", "é", "ê", "ë", "ì", "í", "î", "ï", "ð", "ñ", "ò", "ó", "ô", "õ", "ö", "ø",
      "ù", "ú", "û", "ü", "ý", "þ", "ÿ">>

OrdTable ==
    [c \in {CodePoints[i] : i \in DOMAIN CodePoints} |->
        CHOOSE i \in DOMAIN CodePoints : CodePoints[i] = c]

ord(c) == OrdTable[c]

\* a < b for str
RECURSIVE StrLess(_, _)
StrLess(a, b) ==
    IF Len(b) = 0 THEN FALSE
    ELSE IF Len(a) = 0 THEN TRUE
    ELSE IF a[1] # b[1] THEN ord(a[1]) < ord(b[1])
    ELSE StrLess(Tail(a), Tail(b))

\* a sorted sequence with x put in its place
Insert(s, x) ==
    LET n == Cardinality({i \in DOMAIN s : StrLess(s[i], x)})
    IN SubSeq(s, 1, n) \o <<x>> \o SubSeq(s, n + 1, Len(s))

\* sorted(S) for a set of str
RECURSIVE sorted(_)
sorted(S) ==
    IF S = {} THEN <<>>
    ELSE LET x == CHOOSE y \in S : TRUE
         IN Insert(sorted(S \ {x}), x)

\* dir(None): the attribute names of NoneType
NoneTypeNames ==
    { <<"_","_","b","o","o","l","_","_">>,
      <<"_","_","c","l","a","s","s","_","_">>,
      <<"_","_","d","e","l","a","t","t","r","_","_">>,
      <<"_","_","d","i","r","_","_">>,
      <<"_","_","d","o","c","_","_">>,
      <<"_","_","e","q","_","_">>,
      <<"_","_","f","o","r","m","a","t","_","_">>,
      <<"_","_","g","e","_","_">>,
      <<"_","_","g","e","t","a","t","t","r","i","b","u","t","e","_","_">>,
      <<"_","_","g","e","t","s","t","a","t","e","_","_">>,
      <<"_","_","g","t","_","_">>,
      <<"_","_","h","a","s","h","_","_">>,
      <<"_","_","i","n","i","t","_","_">>,
      <<"_","_","i","n","i","t","_","s","u","b","c","l","a","s","s","_","_">>,
      <<"_","_","l","e","_","_">>,
      <<"_","_","l","t","_","_">>,
      <<"_","_","n","e","_","_">>,
      <<"_","_","n","e","w","_","_">>,
      <<"_","_","r","e","d","u","c","e","_","_">>,
      <<"_","_","r","e","d","u","c","e","_","e","x","_","_">>,
      <<"_","_","r","e","p","r","_","_">>,
      <<"_","_","s","e","t","a","t","t","r","_","_">>,
      <<"_","_","s","i","z","e","o","f","_","_">>,
      <<"_","_","s","t","r","_","_">>,
      <<"_","_","s","u","b","c","l","a","s","s","h","o","o","k","_","_">> }

\* the names every module executed from a file carries besides its own
ModuleDunders ==
    { <<"_","_","b","u","i","l","t","i","n","s","_","_">>,
      <<"_","_","c","a","c","h","e","d","_","_">>,
      <<"_","_","d","o","c","_","_">>,
      <<"_","_","f","i","l","e","_","_">>,
      <<"_","_","l","o","a","d","e","r","_","_">>,
      <<"_","_","n","a","m","e","_","_">>,
      <<"_","_","p","a","c","k","a","g","e","_","_">>,
      <<"_","_","s","p","e","c","_","_">> }

Module(attrs) == [type |-> "module", attrs |-> attrs]

\* dir(obj) for a module or None
NoneTypeDir == sorted(NoneTypeNames)

dir(obj) ==
    IF obj = None
    THEN NoneTypeDir
    ELSE sorted(DOMAIN obj.attrs \cup ModuleDunders)

\* getattr(mod, name) for a name the module's file defines
getattr(mod, name) == mod.attrs[name]

----------------------------------------------------------------------------
(* load_module, funcs_from_name *)

\* What the import system holds for a dotted name:
\*   find  Ok, or the exception importlib.util.find_spec raises for the name
\*   exec  Ok, or the exception the module's code raises when executed
\*   attrs the module's own names after a complete execution
\*   utf8  whether the file's bytes decode as UTF-8
\*   mentions_pytest_perf  whether the file's text contains 'pytest_perf'
\* A name it does not hold is a module find_spec does not find.

\* the body of load_module, before the decorator
load_module_body(name) ==
    IF name = <<>> \/ name \notin DOMAIN importable
    THEN Raised(AttributeError)            \* find_spec gives None: module_from_spec(None)
    ELSE IF importable[name].find # Ok THEN Raised(importable[name].find)
    ELSE IF importable[name].exec # Ok THEN Raised(importable[name].exec)
    ELSE Returned(Module(importable[name].attrs))

load_module(name) == suppress_Exception(load_module_body(name))

\* the names of dir(mod) the pattern is found in, in the order of dir
RECURSIVE MatchingNames(_)
MatchingNames(names) ==
    IF Len(names) = 0 THEN <<>>
    ELSE (IF re_search(names[1]) THEN <<names[1]>> ELSE <<>>)
            \o MatchingNames(Tail(names))

\* funcs_from_name(name): the values a full iteration yields, in order, or the
\* exception load_module lets through
funcs_from_name(name) ==
    LET mod_path == rpartition(name, <<".">>)[1]
        mod_name == replace(mod_path, "/", ".")
        loaded == load_module(mod_name)
    IN IF loaded.raised # Ok THEN loaded
       ELSE LET mod == loaded.value
                names == MatchingNames(dir(mod))
            IN Returned([i \in 1..Len(names) |-> getattr(mod, names[i])])

----------------------------------------------------------------------------
(* runner_factory = functools.lru_cache()(runner.BenchmarkRunner) *)

\* functools.lru_cache() without arguments: maxsize=128
maxsize == 128

\* The cache is the sequence of its entries [key, inst], least recently used
\* first. A Runner instance is named by the number of its construction.
CacheKeys(c) == {c[i].key : i \in DOMAIN c}
CacheIndex(c, key) == CHOOSE i \in DOMAIN c : c[i].key = key
Without(c, i) == SubSeq(c, 1, i - 1) \o SubSeq(c, i + 1, Len(c))

\* one call runner_factory(**key) that constructs without raising: a hit moves the
\* entry to the recent end; a miss constructs, drops the oldest entry of a full
\* cache and appends
lru_call(c, made, key) ==
    IF key \in CacheKeys(c)
    THEN LET i == CacheIndex(c, key)
         IN [cache |-> Append(Without(c, i), c[i]), serial |-> made, inst |-> c[i].inst]
    ELSE LET kept == IF Len(c) >= maxsize THEN Tail(c) ELSE c
         IN [cache |-> Append(kept, [key |-> key, inst |-> made + 1]),
             serial |-> made + 1, inst |-> made + 1]

\* a clear that leaves the entries in place
cache_clear_keeps(c) == c

\* runner_factory.cache_clear()
cache_clear(c) == <<>>

\* jaraco.functools.assign_params(func, namespace): the entries of namespace that
\* func takes as parameters
assign_params(params, namespace) ==
    [k \in params \cap DOMAIN namespace |-> namespace[k]]

\* the parameters of runner.BenchmarkRunner and of runner.Command
RunnerParams == {"target", "baseline", "extras", "deps", "control"}
CommandParams == {"warmup", "exercise"}

----------------------------------------------------------------------------
(* pytest_collect_file, File.collect, Experiment *)

DOT_PY == <<".","p","y">>
endswith(s, suffix) == StartsAt(s, suffix, Len(s) - Len(suffix) + 1)

\* the dotted module name funcs_from_name derives from a file name
ModuleNameOf(path) == replace(rpartition(path, <<".">>)[1], "/", ".")

\* a file of the directory that no File object stands for yet
NoFile(path) == [path |-> path, file |-> None, gen |-> "none", items |-> <<>>, exc |-> Ok]

\* the files the session has not passed yet are visited in directory order
IsNext(i) == session.phase = "running" /\ i = session.visited + 1 /\ i \in DOMAIN collectors

\* str(v)
py_str(v) == IF v = None THEN <<"N","o","n","e">> ELSE v.value

\* the truth value of the stored results
bool_of_results(self) == "results" \in DOMAIN self /\ Truthy(self["results"])

\* Experiment.__bool__
Experiment_bool(self) == hasattr(self, "results")

\* Experiment.__str__
Experiment_str(self) == self["name"] \o <<":"," ">> \o py_str(self["results"])

\* pytest_collect_file(path, parent): a File for a .py file whose text contains
\* 'pytest_perf', with the session's options; None for any other file. The text
\* of a .py file is read as UTF-8: bytes that do not decode end the hook with
\* UnicodeDecodeError.
pytest_collect_file(i) ==
    /\ IsNext(i)
    /\ collectors[i].file = None
    /\ LET path == collectors[i].path
           onDisk == importable[ModuleNameOf(path)]
       IN IF endswith(path, DOT_PY) /\ ~onDisk.utf8
          THEN /\ collectors' = [collectors EXCEPT ![i].exc = UnicodeDecodeError]
               /\ session' = [session EXCEPT !.visited = i]
          ELSE IF endswith(path, DOT_PY) /\ onDisk.mentions_pytest_perf
          THEN /\ collectors' = [collectors EXCEPT ![i].file =
                      [target |-> config.perf_target, baseline |-> config.perf_baseline]]
               /\ UNCHANGED session
          ELSE /\ session' = [session EXCEPT !.visited = i]
               /\ UNCHANGED collectors
    /\ UNCHANGED <<importable, func, built, yielded, config, heap, _instances,
                   cache, serial, handed, retired, fresh, written>>

\* Experiment.__init__ via from_parent: the new object's attributes ("born" is
\* the session of its construction, "outcomes" what its runtest calls did)
Experiment_init(name, parent, spec) ==
    [a \in {"name", "parent", "spec", "command", "born", "outcomes"} |->
        CASE a = "name" -> name
          [] a = "parent" -> parent
          [] a = "spec" -> spec
          [] a = "command" -> assign_params(CommandParams, spec)
          [] a = "born" -> session.number
          [] a = "outcomes" -> {}]

\* The generator File.collect returns, run to its end as list() runs it: for each
\* function in turn its spec, and the Experiment made from it and appended to
\* Experiment._instances. An exception of spec_from_func ends the generator
\* there, and the caller gets the exception instead of the items.
RECURSIVE drain(_, _, _, _, _, _)
drain(path, file, funcs, objects, refs, items) ==
    IF Len(funcs) = 0
    THEN [gen |-> "exhausted", exc |-> Ok, heap |-> objects, instances |-> refs,
          items |-> items]
    ELSE LET made == spec_from_func(funcs[1])
         IN IF made.raised # Ok
            THEN [gen |-> "raised", exc |-> made.raised, heap |-> objects,
                  instances |-> refs, items |-> <<>>]
            ELSE LET spec == made.value @@
                               [target |-> file.target, baseline |-> file.baseline]
                     name == path \o <<":">> \o spec["name"].value
                 IN drain(path, file, Tail(funcs),
                          Append(objects, Experiment_init(name, path, spec)),
                          Append(refs, Len(objects) + 1),
                          Append(items, Len(objects) + 1))

\* File.collect(), and the iteration of what it returns. funcs_from_name, and with
\* it load_module and dir, run in the call itself: the generator expression
\* evaluates its outermost iterable when it is created.
File_collect(i) ==
    /\ IsNext(i)
    /\ collectors[i].file # None
    /\ collectors[i].gen = "none"
    /\ \E found \in {funcs_from_name(collectors[i].path)} :
          IF found.raised # Ok
          THEN /\ collectors' = [collectors EXCEPT ![i].gen = "raised",
                                                   ![i].exc = found.raised]
               /\ UNCHANGED <<heap, _instances>>
          ELSE \E end \in {drain(collectors[i].path, collectors[i].file, found.value,
                                  heap, _instances, <<>>)} :
                  /\ collectors' = [collectors EXCEPT ![i].gen = end.gen,
                                                      ![i].exc = end.exc,
                                                      ![i].items = end.items]
                  /\ heap' = end.heap
                  /\ _instances' = end.instances
    /\ session' = [session EXCEPT !.visited = i]
    /\ UNCHANGED <<importable, func, built, yielded, config,
                   cache, serial, handed, retired, fresh, written>>

----------------------------------------------------------------------------
(* Experiment.runtest, pytest_terminal_summary, pytest_sessionfinish *)

MaxSessions == 2

\* what runner.run(command) returns: a report, or an empty one
RunResults == {Str(<<"1",".","2">>), Str(<<>>)}
RunOutcomes == {Returned(v) : v \in RunResults} \cup {Raised(CalledProcessError)}

SetResults(self, v) ==
    [a \in DOMAIN self \cup {"results"} |-> IF a = "results" THEN v ELSE self[a]]
Record(self, what) == [self EXCEPT !["outcomes"] = @ \cup {what}]

\* the items the session runs: those of the files whose collection ended without
\* an exception
Collected(e) ==
    /\ session.phase = "running"
    /\ session.visited = Len(collectors)
    /\ \E i \in DOMAIN collectors :
          /\ collectors[i].gen = "exhausted"
          /\ \E k \in DOMAIN collectors[i].items : collectors[i].items[k] = e

\* Experiment.runtest() where constructing the BenchmarkRunner raises: nothing is
\* cached and nothing is stored
runtest_no_runner(e) ==
    /\ e \in DOMAIN heap
    /\ Collected(e)
    /\ assign_params(RunnerParams, heap[e]["spec"]) \notin CacheKeys(cache)
    /\ heap' = [heap EXCEPT ![e] = Record(@, "raised")]
    /\ UNCHANGED <<importable, func, built, yielded, session, config, _instances,
                   collectors, cache, serial, handed, retired, fresh, written>>

\* Experiment.runtest(): self.results = self.runner.run(self.command), the runner
\* coming from runner_factory with the spec's entries it accepts
runtest(e, outcome) ==
    /\ e \in DOMAIN heap
    /\ Collected(e)
    /\ LET key == assign_params(RunnerParams, heap[e]["spec"])
           call == lru_call(cache, serial, key)
       IN /\ cache' = call.cache
          /\ serial' = call.serial
          /\ handed' = handed \cup {[key |-> key, inst |-> call.inst]}
    /\ heap' = [heap EXCEPT ![e] =
                  IF outcome.raised # Ok
                  THEN Record(@, "raised")
                  ELSE Record(SetResults(@, outcome.value), "returned")]
    /\ UNCHANGED <<importable, func, built, yielded, session, config, _instances,
                   collectors, retired, fresh, written>>

\* filter(None, Experiment._instances), then str of each
RECURSIVE SummaryLines(_)
SummaryLines(refs) ==
    IF Len(refs) = 0 THEN <<>>
    ELSE (IF Experiment_bool(heap[refs[1]])
          THEN <<Experiment_str(heap[refs[1]])>> ELSE <<>>)
            \o SummaryLines(Tail(refs))

\* pytest_terminal_summary, which pytest calls once its pytest_sessionfinish
\* hooks are through: the section title when there is a line, then the lines
pytest_terminal_summary ==
    /\ session.phase = "finished"
    /\ LET lines == SummaryLines(_instances)
       IN written' = IF Len(lines) > 0 THEN <<<<"p","e","r","f">>>> \o lines ELSE <<>>
    /\ UNCHANGED <<importable, func, built, yielded, session, config, heap, _instances,
                   collectors, cache, serial, handed, retired, fresh>>

\* pytest_sessionfinish, which pytest calls once the collection and the run of
\* the items are over: runner_factory.cache_clear()
pytest_sessionfinish ==
    /\ session.phase = "running"
    /\ session.visited = Len(collectors)
    /\ cache' = cache_clear(cache)
    /\ retired' = retired \cup handed
    /\ handed' = {}
    /\ session' = [session EXCEPT !.phase = "finished"]
    /\ UNCHANGED <<importable, func, built, yielded, config, heap, _instances,
                   collectors, serial, fresh, written>>

----------------------------------------------------------------------------
(* The functions spec_from_func is applied to *)

MaxLines == 3

FuncName == <<"t","h","i","n","g","_","p","e","r","f">>
Header == <<"d","e","f"," ","t","h","i","n","g","_","p","e","r","f","(",")">>

\* body lines as they stand in the file, inside a def at top level
BodyLines ==
    { <<" "," "," "," ","s","e","t","u","p","(",")">>,
      <<" "," "," "," ","#"," ","e","n","d"," ","w","a","r","m","u","p">>,
      <<" "," "," "," ","m","e","a","s","u","r","e","(",")">>,
      <<" "," "," "," "," "," "," "," ","d","e","e","p","(",")">>,
      <<>> }

Bodies == UNION {[1..n -> BodyLines] : n \in 1..MaxLines}

\* the text of a def statement: header, colon, and each body line with its line end
SourceOf(header, lines) == header \o COLON_NEWLINE \o join(lines, "\n") \o <<"\n">>

OneLiner == <<"d","e","f"," ","t","h","i","n","g","_","p","e","r","f","(",")",":"," ","m","e","a","s","u","r","e","(",")","\n">>

Sources ==
    {Raised(OSError), Str(OneLiner)} \cup {Str(SourceOf(Header, lines)) : lines \in Bodies}

Docs ==
    { None,
      Str(<<>>),
      Str(<<"F","o","o">>),
      Str(<<"\n"," "," "," "," ","F","o","o","\n"," "," "," "," ">>),
      Str(<<" "," ","F","o","o"," "," ","\n","B","a","r">>),
      Str(<<" "," "," ","\n","\n","F","o","o">>),
      Str(<<"F","o","o","\r","B","a","r">>),
      Str(<<"F","o","o","\r","\n","B","a","r">>),
      Str(<<"\f","F","o","o">>),
      Str(<<" "," "," ">>) }

LIB == Str(<<"l","i","b">>)

Attrs ==
    { <<>>,
      [deps |-> None],
      [deps |-> List(<<>>)],
      [deps |-> List(<<LIB>>)],
      [deps |-> List(<<LIB>>), extras |-> List(<<Str(<<"x">>)>>), control |-> Str(<<"v">>)] }

\* the function object with the given documentation, source and attributes
Function(name, doc, source, attrs) ==
    [a \in {"__name__", "__doc__", "source"} \cup DOMAIN attrs |->
        CASE a = "__name__" -> name
          [] a = "__doc__" -> doc
          [] a = "source" -> source
          [] OTHER -> attrs[a]]

\* perf = len: a builtin bound to a perf name keeps its own name and
\* documentation, and has no source for inspect.getsource to look for
LEN == <<"l","e","n">>
Builtin ==
    Function(LEN, Str(<<"R","e","t","u","r","n"," ","t","h","e"," ","n","u","m","b","e","r",".">>),
             Raised(TypeError), <<>>)

\* an object that is no function and has no __name__: an instance of a class, with
\* the documentation of its class
Instance(doc) == [a \in {"__doc__", "source"} |-> IF a = "__doc__" THEN doc ELSE Raised(TypeError)]

FuncSpace ==
    {Function(FuncName, d, s, a) : d \in Docs, s \in Sources, a \in Attrs}
        \cup {Builtin} \cup {Instance(d) : d \in Docs}

----------------------------------------------------------------------------
(* Idle values of the variables a specification does not use *)

NoModules == <<>>
FirstSession == [number |-> 1, phase |-> "running", visited |-> 0]
NoConfig == [perf_target |-> None, perf_baseline |-> None]

FuncIdle == func = None /\ built = None
DiscoverIdle == importable = NoModules /\ yielded = None
SessionIdle ==
    /\ session = FirstSession /\ config = NoConfig /\ heap = <<>> /\ _instances = <<>>
    /\ collectors = <<>> /\ written = <<>>
CacheIdle == cache = <<>> /\ serial = 0 /\ handed = {} /\ retired = {} /\ fresh = 0

----------------------------------------------------------------------------
(* SpecFunc: spec_from_func applied to one function *)

FuncInit ==
    /\ func \in FuncSpace
    /\ built = None
    /\ DiscoverIdle /\ SessionIdle /\ CacheIdle

BuildSpec ==
    /\ built = None
    /\ built' = spec_from_func(func)
    /\ UNCHANGED <<importable, func, yielded, session, config, heap, _instances,
                   collectors, cache, serial, handed, retired, fresh, written>>

FuncNext == BuildSpec

SpecFunc == FuncInit /\ [][FuncNext]_vars

----------------------------------------------------------------------------
(* SpecDiscover: funcs_from_name and File.collect over one module *)

MaxAttrs == 2

CandidateNames ==
    { <<"r","u","n","_","p","e","r","f","_","t","e","s","t">>,
      <<"p","e","r","f">>,
      <<"d","o","_","p","e","r","f">>,
      <<"p","e","r","f","o","r","m","a","n","c","e">>,
      <<"P","e","r","f">>,
      <<"_","p","e","r","f">>,
      <<"p","e","r","f","2">>,
      <<"x","p","e","r","f">>,
      <<"p","e","r","f","_">>,
      <<"_","_","p","e","r","f","_","_">>,
      <<"s","e","t","u","p">>,
      <<"é","p","e","r","f">>,
      <<"p","e","r","f","é">>,
      <<"p","e","r","f","o","r","m","a","n","c","e","_","p","e","r","f">> }

ProbeModule == <<"p","e","r","f",".","e","x","e","r","c","i","s","e","s">>
ProbeFile == <<"p","e","r","f","/","e","x","e","r","c","i","s","e","s",".","p","y">>
ProbePaths == {ProbeFile, <<"e","x","e","r","c","i","s","e","s",".","p","y">>}

\* how looking up and executing the module ends
LoadOutcomes ==
    { [find |-> Ok, exec |-> Ok],
      [find |-> ModuleNotFoundError, exec |-> Ok],
      [find |-> ValueError, exec |-> Ok],
      [find |-> Ok, exec |-> SyntaxError],
      [find |-> Ok, exec |-> ImportError],
      [find |-> Ok, exec |-> CalledProcessError],
      [find |-> Ok, exec |-> MyError],
      [find |-> Ok, exec |-> SystemExit],
      [find |-> Ok, exec |-> KeyboardInterrupt],
      [find |-> Ok, exec |-> Skipped] }

OnDisk(outcome, attrs, mentions) ==
    [find |-> outcome.find, exec |-> outcome.exec, attrs |-> attrs,
     utf8 |-> TRUE, mentions_pytest_perf |-> mentions]

\* the same file with bytes in it that are not UTF-8
NotUtf8(file) == [file EXCEPT !.utf8 = FALSE]

\* def thing_perf(): """Widget timing""" / setup() / # end warmup / measure(),
\* and thing_perf.deps = ["lib"] after it
ThingPerf ==
    Function(FuncName, Str(<<"W","i","d","g","e","t"," ","t","i","m","i","n","g">>),
             Str(SourceOf(Header, << <<" "," "," "," ","\"","\"","\"","W","i","d","g","e","t"," ","t","i","m","i","n","g","\"","\"","\"">>,
                                     <<" "," "," "," ","s","e","t","u","p","(",")">>,
                                     <<" "," "," "," ","#"," ","e","n","d"," ","w","a","r","m","u","p">>,
                                     <<" "," "," "," ","m","e","a","s","u","r","e","(",")">> >>)),
             [deps |-> List(<<LIB>>)])

\* the module on disk: one that defines up to MaxAttrs of the candidate names,
\* or the one that defines thing_perf
DiscoverWorlds ==
    { ProbeModule :> OnDisk(o, attrs, TRUE) :
      o \in LoadOutcomes,
      attrs \in {[n \in N |-> Function(n, None, Str(OneLiner), <<>>)] :
                    N \in {S \in SUBSET CandidateNames : Cardinality(S) <= MaxAttrs}}
                \cup {FuncName :> ThingPerf} }

DefaultConfig == [perf_target |-> Str(<<".">>), perf_baseline |-> None]

\* the options of a session: the defaults, or both options given
ConfigSpace ==
    {DefaultConfig,
     [perf_target |-> Str(<<"d","i","s","t">>), perf_baseline |-> Str(<<"g","i","t">>)]}

DiscoverInit ==
    /\ importable \in DiscoverWorlds
    /\ yielded = None
    /\ session = FirstSession /\ config \in ConfigSpace
    /\ heap = <<>> /\ _instances = <<>> /\ written = <<>>
    /\ collectors = <<NoFile(ProbeFile)>>
    /\ FuncIdle /\ CacheIdle

\* one call of load_module and one full iteration of funcs_from_name for a file name
probe(name) ==
    /\ yielded = None
    /\ yielded' = [name |-> name,
                   loaded |-> load_module(ModuleNameOf(name)),
                   funcs |-> funcs_from_name(name)]
    /\ UNCHANGED <<importable, func, built, session, config, heap, _instances,
                   collectors, cache, serial, handed, retired, fresh, written>>

DiscoverNext ==
    \/ \E name \in ProbePaths : probe(name)
    \/ \E i \in DOMAIN collectors : pytest_collect_file(i)
    \/ \E i \in DOMAIN collectors : File_collect(i)

SpecDiscover == DiscoverInit /\ [][DiscoverNext]_vars

----------------------------------------------------------------------------
(* Spec: pytest sessions over a fixed set of files *)

MULTI_PY == <<"p","k","g","/","m","u","l","t","i",".","p","y">>
BROKEN_PY == <<"b","r","o","k","e","n",".","p","y">>
PAIR_PY == <<"p","a","i","r",".","p","y">>
PLAIN_PY == <<"p","l","a","i","n",".","p","y">>
\* the directory, in the order pytest visits it
LATIN_PY == <<"l","a","t","i","n",".","p","y">>
SessionFiles == <<BROKEN_PY, LATIN_PY, PAIR_PY, MULTI_PY, PLAIN_PY>>
Unvisited == [i \in DOMAIN SessionFiles |-> NoFile(SessionFiles[i])]

A_PERF == <<"a","_","p","e","r","f">>
B_PERF == <<"b","_","p","e","r","f">>
C_PERF == <<"c","_","p","e","r","f">>

\* a function defined in the file, with a one-line body
Plain(name) ==
    Function(name, None,
             Str(SourceOf(<<"d","e","f"," ">> \o name \o <<"(",")">>, << <<" "," "," "," ","m","e","a","s","u","r","e","(",")">> >>)),
             <<>>)

\* a function with no source text to find: one made by exec or eval
Sourceless(name) == Function(name, None, Raised(OSError), <<>>)

Loads == [find |-> Ok, exec |-> Ok]

SessionModules ==
    (<<"p","k","g",".","m","u","l","t","i">> :>
          OnDisk(Loads, (A_PERF :> Plain(A_PERF)) @@ (B_PERF :> Sourceless(B_PERF))
                          @@ (C_PERF :> Plain(C_PERF)), TRUE))
    @@ (<<"b","r","o","k","e","n">> :>
          OnDisk([find |-> Ok, exec |-> ZeroDivisionError], <<>>, TRUE))
    @@ (<<"p","a","i","r">> :>
          OnDisk(Loads, (A_PERF :> Plain(A_PERF)) @@ (C_PERF :> Plain(C_PERF)), TRUE))
    @@ (<<"p","l","a","i","n">> :> OnDisk(Loads, A_PERF :> Plain(A_PERF), FALSE))
    @@ (<<"l","a","t","i","n">> :> NotUtf8(OnDisk(Loads, A_PERF :> Plain(A_PERF), TRUE)))

Init ==
    /\ importable = SessionModules
    /\ session = FirstSession
    /\ config = DefaultConfig
    /\ heap = <<>> /\ _instances = <<>> /\ written = <<>>
    /\ collectors = Unvisited
    /\ yielded = None
    /\ FuncIdle /\ CacheIdle

\* pytest runs once more in the same process, with the same options: new File
\* objects and a new terminal; the module plugin.py stays imported, and with it
\* Experiment._instances
new_session ==
    /\ session.phase = "finished"
    /\ session.number < MaxSessions
    /\ session' = [number |-> session.number + 1, phase |-> "running", visited |-> 0]
    /\ collectors' = Unvisited
    /\ written' = <<>>
    /\ UNCHANGED <<importable, func, built, yielded, config, heap, _instances,
                   cache, serial, handed, retired, fresh>>

Next ==
    \/ \E i \in DOMAIN collectors : pytest_collect_file(i)
    \/ \E i \in DOMAIN collectors : File_collect(i)
    \/ \E e \in DOMAIN heap : \E outcome \in RunOutcomes : runtest(e, outcome)
    \/ \E e \in DOMAIN heap : runtest_no_runner(e)
    \/ pytest_terminal_summary
    \/ pytest_sessionfinish
    \/ new_session

Spec == Init /\ [][Next]_vars

----------------------------------------------------------------------------
(* SpecCache: runner_factory called directly, without cache_clear *)

NumArgSets == 130

\* the k-th of the distinct argument sets: target '.', and the k-th baseline
ArgSet(k) == [target |-> Str(<<".">>), baseline |-> Str(<<k>>)]

\* the argument sets that are requested again after their first request
Repeated == {0}

CacheInit ==
    /\ CacheIdle
    /\ FuncIdle /\ DiscoverIdle /\ SessionIdle

\* runner_factory(**ArgSet(k)); argument sets are numbered in the order of their
\* first request
request(k) ==
    /\ k <= fresh
    /\ k = fresh \/ k \in Repeated
    /\ LET call == lru_call(cache, serial, ArgSet(k))
       IN /\ cache' = call.cache
          /\ serial' = call.serial
          /\ handed' = handed \cup {[key |-> ArgSet(k), inst |-> call.inst]}
    /\ fresh' = IF k = fresh THEN fresh + 1 ELSE fresh
    /\ UNCHANGED <<importable, func, built, yielded, session, config, heap, _instances,
                   collectors, retired, written>>

CacheNext == \E k \in 0..(NumArgSets - 1) : request(k)

SpecCache == CacheInit /\ [][CacheNext]_vars

----------------------------------------------------------------------------
(* Claims about spec_from_func, checked under SpecFunc *)

Built == built # None /\ built.raised = Ok

\* the dedented body of the function's source: what follows the first ':\n'
DedentedBody(f) == dedent(partition(f["source"].value, COLON_NEWLINE)[3])

\* C6 as stated: whenever the dedented body contains the marker, wherever it
\* stands, the spec has 'warmup' and 'exercise' and warmup + marker + exercise is
\* the body; without the marker there is no 'warmup' and 'exercise' is the body.
C6_LosslessWhereverMarkerStands ==
    Built =>
        LET body == DedentedBody(func)
            spec == built.value
        IN IF Occurrences(body, MARKER) # {}
           THEN /\ {"warmup", "exercise"} \subseteq DOMAIN spec
                /\ spec["warmup"].value \o MARKER \o spec["exercise"].value = body
           ELSE /\ "warmup" \notin DOMAIN spec
                /\ spec["exercise"].value = body

\* C6 amended: the body is split at the last occurrence of the marker. When text
\* precedes that occurrence the spec has 'warmup' and 'exercise', 'exercise' holds
\* no marker and warmup + marker + exercise is the dedented body; when the body
\* starts with its only marker there is no 'warmup' key and marker + exercise is
\* the body; without the marker there is no 'warmup' key and 'exercise' is the body.
C6_LosslessAtLastMarker ==
    Built =>
        LET body == DedentedBody(func)
            spec == built.value
            occ == Occurrences(body, MARKER)
        IN /\ "exercise" \in DOMAIN spec
           /\ Occurrences(spec["exercise"].value, MARKER) = {}
           /\ IF occ # {} /\ Max(occ) > 1
              THEN /\ "warmup" \in DOMAIN spec
                   /\ spec["warmup"].value \o MARKER \o spec["exercise"].value = body
              ELSE IF occ # {}
              THEN /\ "warmup" \notin DOMAIN spec
                   /\ MARKER \o spec["exercise"].value = body
              ELSE /\ "warmup" \notin DOMAIN spec
                   /\ spec["exercise"].value = body

\* a spec built from a body with two markers, the first of them on its first line
C6_Witness ==
    /\ Built
    /\ Cardinality(Occurrences(DedentedBody(func), MARKER)) = 2
    /\ 1 \in Occurrences(DedentedBody(func), MARKER)
    /\ "warmup" \in DOMAIN built.value

\* C7 as stated: 'name' is the first stripped non-empty line of the documentation
\* text when it has one (blank lines in front or not), else the bare name.
\* first_line takes the first line whether it is blank or not, so documentation
\* text that starts with a blank line gives the bare name.
C7_NameIsFirstNonBlankLine ==
    Built =>
        LET doc == func["__doc__"]
            lines == IF doc = None THEN <<>> ELSE splitlines(doc.value)
            solid == {i \in 1..Len(lines) : strip(lines[i]) # <<>>}
        IN built.value["name"] =
               IF solid # {}
               THEN Str(strip(lines[Min(solid)]))
               ELSE Str(func["__name__"])

----------------------------------------------------------------------------
(* Claims about load_module, funcs_from_name and File.collect, checked under
   SpecDiscover *)

\* whether loading the module of a file name raises, and what
LoadFails(path) ==
    LET name == ModuleNameOf(path)
    IN name \notin DOMAIN importable
         \/ importable[name].find # Ok \/ importable[name].exec # Ok

LoadFailure(path) ==
    LET name == ModuleNameOf(path)
    IN IF name \notin DOMAIN importable THEN AttributeError
       ELSE IF importable[name].find # Ok THEN importable[name].find
       ELSE importable[name].exec

\* nothing came of the file: load_module returned None, funcs_from_name yielded
\* no function, and collecting made no Experiment and raised nothing
NothingFrom(path) ==
    /\ (yielded # None /\ yielded.name = path) =>
          yielded.loaded = Returned(None) /\ yielded.funcs = Returned(<<>>)
    /\ \A i \in DOMAIN collectors :
          (collectors[i].path = path /\ collectors[i].gen # "none") =>
              /\ collectors[i].gen = "exhausted"
              /\ collectors[i].items = <<>>
              /\ \A e \in DOMAIN heap : heap[e]["parent"] # path

\* C5 as stated: whatever exception looking up, creating or executing the module
\* raises, load_module raises nothing and returns None, funcs_from_name yields no
\* function and collecting the file makes no Experiment and raises nothing.
C5_AnyExceptionIsAbsorbed ==
    \A path \in ProbePaths : LoadFails(path) => NothingFrom(path)

\* C5 amended: the same for every exception that is an instance of Exception; an
\* exception that derives from BaseException only (SystemExit,
\* KeyboardInterrupt) is outside the claim, load_module lets it through.
C5_ExceptionsAreAbsorbed ==
    \A path \in ProbePaths :
        (LoadFails(path) /\ issubclass(LoadFailure(path), "Exception")) => NothingFrom(path)

\* the file whose module raises an Exception when executed has been probed and
\* collected
C5_Witness ==
    /\ LoadFails(ProbeFile)
    /\ issubclass(importable[ProbeModule].exec, "Exception")
    /\ yielded # None /\ yielded.name = ProbeFile
    /\ collectors[1].gen = "exhausted"

\* the parts of a name between its underscores
Parts(name) == {split(name, "_")[i] : i \in DOMAIN split(name, "_")}
IsPublic(name) == name[1] # "_"

\* the functions funcs_from_name yielded for the probed file, as a set
YieldedFrom(path) == {yielded.funcs.value[i] : i \in DOMAIN yielded.funcs.value}

Probed(path) == yielded # None /\ yielded.name = path /\ ~LoadFails(path)

\* C8 as stated: the value of an attribute is yielded if and only if the
\* attribute is public and 'perf' stands in its name between word boundaries or
\* underscores.
C8_YieldsPublicPerfNames ==
    Probed(ProbeFile) =>
        LET attrs == importable[ProbeModule].attrs
        IN /\ yielded.funcs.raised = Ok
           /\ YieldedFrom(ProbeFile) =
                {attrs[n] : n \in {m \in DOMAIN attrs : IsPublic(m) /\ PERF \in Parts(m)}}

\* C8 amended: the value of an attribute is yielded, once, if and only if 'perf'
\* stands in its name between word boundaries or underscores (for an identifier:
\* one of the parts between its underscores is 'perf'), whether the name is
\* public or starts with an underscore; the values come in the order of dir(),
\* their names ascending by code point.
C8_YieldsPerfNames ==
    Probed(ProbeFile) =>
        LET attrs == importable[ProbeModule].attrs
            expected == {m \in DOMAIN attrs : PERF \in Parts(m)}
            funcs == yielded.funcs.value
        IN /\ yielded.funcs.raised = Ok
           /\ YieldedFrom(ProbeFile) = {attrs[n] : n \in expected}
           /\ Len(funcs) = Cardinality(expected)
           /\ \A i, j \in DOMAIN funcs :
                 i < j => \E m, n \in expected :
                             /\ funcs[i] = attrs[m]
                             /\ funcs[j] = attrs[n]
                             /\ StrLess(m, n)

\* a module with 'do_perf' and '_perf': both were yielded, '_perf' first
C8_Witness ==
    /\ Probed(ProbeFile)
    /\ DOMAIN importable[ProbeModule].attrs = { <<"d","o","_","p","e","r","f">>, <<"_","p","e","r","f">> }
    /\ Len(yielded.funcs.value) = 2
    /\ yielded.funcs.value[1]["__name__"] = <<"_","p","e","r","f">>
    /\ yielded.funcs.value[2]["__name__"] = <<"d","o","_","p","e","r","f">>

ThingCollected ==
    /\ importable[ProbeModule] = OnDisk(Loads, FuncName :> ThingPerf, TRUE)
    /\ collectors[1].gen # "none"

\* C9 as stated: collecting the module of thing_perf yields one Experiment whose
\* spec is {name: 'Widget timing', target: '.', baseline: None, deps: ('lib',),
\* warmup: 'setup()\n', exercise: 'measure()\n'}.
C9_SpecAsStated ==
    (ThingCollected /\ config = DefaultConfig) =>
        /\ collectors[1].gen = "exhausted"
        /\ Len(heap) = 1
        /\ heap[1]["spec"] =
             [name |-> Str(<<"W","i","d","g","e","t"," ","t","i","m","i","n","g">>),
              target |-> Str(<<".">>),
              baseline |-> None,
              deps |-> Tuple(<<LIB>>),
              warmup |-> Str(<<"s","e","t","u","p","(",")","\n">>),
              exercise |-> Str(<<"m","e","a","s","u","r","e","(",")","\n">>)]

\* C9 amended: it yields one Experiment whose spec is the file's target and
\* baseline, the name, the frozen deps, 'warmup' equal to the dedented body text
\* in front of the marker, the line of the documentation string included, and
\* 'exercise' equal to the text behind the marker, which starts with the line end
\* of the marker's line: warmup '"""Widget timing"""\nsetup()\n', exercise
\* '\nmeasure()\n'.
C9_SpecAsBuilt ==
    ThingCollected =>
        /\ collectors[1].gen = "exhausted"
        /\ Len(heap) = 1
        /\ _instances = <<1>>
        /\ heap[1]["spec"] =
             [name |-> Str(<<"W","i","d","g","e","t"," ","t","i","m","i","n","g">>),
              target |-> config.perf_target,
              baseline |-> config.perf_baseline,
              deps |-> Tuple(<<LIB>>),
              warmup |-> Str(<<"\"","\"","\"","W","i","d","g","e","t"," ","t","i","m","i","n","g","\"","\"","\"","\n","s","e","t","u","p","(",")","\n">>),
              exercise |-> Str(<<"\n","m","e","a","s","u","r","e","(",")","\n">>)]

\* the module of thing_perf has been collected and its Experiment made
C9_Witness ==
    ThingCollected /\ config = DefaultConfig /\ Len(heap) = 1 /\ "warmup" \in DOMAIN heap[1]["spec"]

----------------------------------------------------------------------------
(* Claims about the sessions, checked under Spec *)

Outcomes(e) == heap[e]["outcomes"]

\* C2: after cache_clear the cache holds no Runner, and a request made after it,
\* also one with an argument set used before it, returns a Runner that no request
\* before the clear returned.
C2_ClearedRunnersAreNotReused ==
    /\ session.phase = "finished" => cache = <<>>
    /\ \A q \in retired :
          /\ \A i \in DOMAIN cache : cache[i].inst # q.inst
          /\ \A p \in handed : p.inst # q.inst

\* a request after the clear with an argument set that was used before it
C2_Witness == \E p \in handed : \E q \in retired : p.key = q.key

\* the perf functions of a file whose source text can be retrieved
Buildable(path) ==
    LET attrs == importable[ModuleNameOf(path)].attrs
    IN {n \in DOMAIN attrs : re_search(n) /\ ~hasattr(attrs[n]["source"], "raised")}

\* C3 as stated: once a file's collection is over, every perf function of it whose
\* spec can be built has its Experiment, also those behind a function whose source
\* text cannot be retrieved; and an Experiment that raised leaves every collected
\* sibling free to run.
C3_FailuresAreNotContagious ==
    /\ \A i \in DOMAIN collectors :
          (collectors[i].gen \in {"exhausted", "raised"} /\ ~LoadFails(collectors[i].path)) =>
              \A n \in Buildable(collectors[i].path) :
                  \E e \in DOMAIN heap :
                      /\ heap[e]["born"] = session.number
                      /\ heap[e]["name"] = collectors[i].path \o <<":">> \o n
    /\ \A e \in DOMAIN heap :
          (Collected(e) /\ heap[e]["outcomes"] = {}) =>
              ENABLED (\E outcome \in RunOutcomes : runtest(e, outcome))

\* C4: an Experiment is truthy if and only if one of its runtest calls has
\* returned, whatever it returned; from construction until then, and when
\* runtest raised, it is falsy.
C4_TruthyIffRuntestReturned ==
    \A e \in DOMAIN heap : Experiment_bool(heap[e]) <=> "returned" \in Outcomes(e)

\* an Experiment whose runtest returned an empty result, and one whose runtest
\* raised
C4_Witness ==
    /\ \E e \in DOMAIN heap :
          "returned" \in Outcomes(e) /\ heap[e]["results"] = Str(<<>>)
    /\ \E e \in DOMAIN heap : Outcomes(e) = {"raised"}

\* the Experiments constructed in the running session, in construction order
RECURSIVE BornIn(_, _)
BornIn(number, upto) ==
    IF upto = 0 THEN <<>>
    ELSE BornIn(number, upto - 1)
            \o (IF heap[upto]["born"] = number THEN <<upto>> ELSE <<>>)

\* C10 as stated: Experiment._instances holds exactly the Experiments constructed
\* in the running session, each once, in construction order, none of an earlier
\* session; and every line of the terminal summary is that of an executed
\* Experiment.
C10_RegistryIsOfThisSession ==
    /\ _instances = BornIn(session.number, Len(heap))
    /\ \A k \in DOMAIN written :
          k > 1 => \E e \in DOMAIN heap :
                      "returned" \in Outcomes(e) /\ written[k] = Experiment_str(heap[e])

----------------------------------------------------------------------------
(* The claim about runner_factory, checked under SpecCache *)

\* C1 as stated: without a cache_clear in between, two requests return the same
\* Runner if and only if their argument sets are equal, however many other
\* argument sets are requested.
C1_OneRunnerPerArgumentSet ==
    \A p \in handed : \A q \in handed : (p.key = q.key) <=> (p.inst = q.inst)

====
